---- MODULE Spec2Model ----
(***************************************************************************)
(* L2 synchronisation loop of crates/client/sync/src/l2.rs: the block /    *)
(* state-update fetch coordinator (sync), the state-update chain           *)
(* (fetch_state_and_class_update), the class downloader                    *)
(* (fetch_class_update), the consensus notification (create_block) and     *)
(* the tip observer (update_starknet_data) with the four shared slots.     *)
(***************************************************************************)
EXTENDS Integers, Sequences, FiniteSets, TLC

VARIABLES
    first_block,            \* argument of sync
    current_block_number,   \* l2.rs:123
    last_block_hash,        \* l2.rs:124, None or the substrate number sealed last
    got_block,              \* l2.rs:125
    got_state_update,       \* l2.rs:126
    elapsed,                \* last_update_highest_block.elapsed(), saturated
    pc,                     \* position of the sync task
    bpc,                    \* position of the fetch_block future
    spc,                    \* position of the fetch_state_and_class_update future
    tasks,                  \* JoinSet of download_class tasks, by class hash
    classes,                \* Vec of downloaded classes (l2.rs:326)
    aborted,                \* download tasks aborted but not yet terminated
    verified_tip,           \* STARKNET_STATE_UPDATE
    highest_known,          \* STARKNET_HIGHEST_BLOCK_HASH_AND_NUMBER
    pending_block,          \* STARKNET_PENDING_BLOCK
    pending_state_update,   \* STARKNET_PENDING_STATE_UPDATE
    best_number,            \* best block number of the local substrate client
    log,                    \* what the three sinks received at this height, in order
    nfail,                  \* failures injected so far
    hist,                   \* bookkeeping of the current height: attempts, outcomes
    ever,                   \* bookkeeping of the whole run
    last_tick               \* inputs and effects of the tip-observer tick just run

vars == << first_block, current_block_number, last_block_hash, got_block,
           got_state_update, elapsed, pc, bpc, spc, tasks, classes, aborted,
           verified_tip, highest_known, pending_block, pending_state_update,
           best_number, log, nfail, hist, ever, last_tick >>

-----------------------------------------------------------------------------
(* Bounds of the model *)

MaxAdvance == 1     \* heights sealed in one run of the loop
MaxFail == 1        \* failures of the gateway, the downloads and the sinks
ElapsedCap == 2     \* the elapsed time saturates here

(* Inputs of sync *)

FirstBlocks == { 0, 1, 2 }
BestNumbers == { 0, 1 }

(* Program constants *)

TickPeriod == 1
BackoffSecs == 10
InitialLag == 20
U64Modulus == 256
HashHexLen == 2

None == -1
Classes == { "A", "B" }
Min(a, b) == IF a < b THEN a ELSE b

-----------------------------------------------------------------------------
(* The sequencer gateway: what get_state_update(Number(h)) answers *)

Deployed(h) ==
    CASE h = 0 -> << "A" >>
      [] h = 1 -> << "A", "B" >>
      [] h = 2 -> << "B" >>
      [] OTHER -> << >>

Declared(h) ==
    CASE h = 1 -> << "B" >>
      [] h = 2 -> << "A" >>
      [] h = 3 -> << "A", "A" >>
      [] OTHER -> << >>

\* the new_root field of the answer: the gateway is a remote service and its
\* root is not always the one the local tries give for the same diff
AnnouncedRoot(h) == IF h = 2 THEN 299 ELSE 200 + h

\* state_diff stands for the storage, nonce and class writes of the height
GatewayStateUpdate(h) ==
    [ block_hash |-> 100 + h, new_root |-> AnnouncedRoot(h), state_diff |-> h,
      deployed_contracts |-> Deployed(h), declared_classes |-> Declared(h) ]

(* The local class store: classes stored as seen at substrate block n *)
ClassStore(n) ==
    CASE n = 0 -> { }
      [] n = 1 -> { "A" }
      [] OTHER -> { "A", "B" }

-----------------------------------------------------------------------------
(* Pure functions of l2.rs *)

\* u64 subtraction of one in a build without overflow checks
WrappingSub1(n) == (n - 1 + U64Modulus) % U64Modulus

RECURSIVE Unique(_, _)
Unique(s, seen) ==
    IF s = << >> THEN << >>
    ELSE IF Head(s) \in seen THEN Unique(Tail(s), seen)
    ELSE << Head(s) >> \o Unique(Tail(s), seen \cup { Head(s) })

aggregate_classes_declared_first(su) ==
    Unique(su.declared_classes \o su.deployed_contracts, {})
aggregate_classes(su) == Unique(su.deployed_contracts \o su.declared_classes, {})

is_missing_class(block_hash_substrate, class_hash) ==
    class_hash \notin ClassStore(block_hash_substrate)

fetch_missing_classes(su, block_hash_substrate) ==
    SelectSeq(aggregate_classes(su),
              LAMBDA c : is_missing_class(block_hash_substrate, c))

\* client.hash(n): the hash of block n when the local chain has it; a block is
\* identified by its number
block_hash_substrate(best, n) == IF n <= best THEN n ELSE None

\* the substrate block whose class store fetch_class_update consults
ClassAnchorNumber(block_number) == block_number

MissingClasses(su, best, block_number) ==
    LET h == block_hash_substrate(best, ClassAnchorNumber(block_number))
    IN  IF h # None THEN fetch_missing_classes(su, h) ELSE aggregate_classes(su)

SeqToSet(s) == { s[i] : i \in 1..Len(s) }

\* B::Hash::from_str(&hash_current.to_string()).unwrap_or(Default::default()):
\* the field element is printed in decimal and the text is read back as a hash
\* of exactly HashHexLen hexadecimal digits; any other length gives the default
DecimalLen(f) == IF f < 10 THEN 1 ELSE IF f < 100 THEN 2 ELSE 3
HashFromFelt(f) ==
    IF DecimalLen(f) = HashHexLen THEN 16 * (f \div 10) + (f % 10) ELSE 0

-----------------------------------------------------------------------------
(* Inputs of the tip observer *)

PendingParents == { 0, 10 }         \* pending.parent_block_hash
PendingNumbers == { None, 2 }       \* pending.block_number, None when absent
BestHashes == { 0, 10, 16 }         \* client.info().best_hash

NoTick ==
    [ ran |-> FALSE, pending_ok |-> FALSE, parent |-> 0, number |-> None,
      best |-> 0, su_fetched |-> FALSE, su_ok |-> FALSE ]

\* the Option::None the two pending slots start with
NoPendingBlock == [ some |-> FALSE, parent |-> 0, number |-> 0 ]
NoPendingStateUpdate == [ some |-> FALSE, old_root |-> 0 ]

NoTasks == [ c \in Classes |-> "none" ]

\* b_*: the block fetch, s_*: the state-update chain, at the current height;
\* verified: runs of verify_l2; dl_failed: a download of this run failed;
\* run_mark: length of the log when this iteration's futures started;
\* resolved: fetch_class_update has worked out what to download, from the
\* candidates of aggregate_classes and the anchor hash, giving missing;
\* parent_number: the number fetch_state_update handed to block_hash_substrate
NewHist ==
    [ b_att |-> 0, b_ok |-> 0, b_fail |-> 0, s_att |-> 0, s_ok |-> 0,
      s_fail |-> 0, verified |-> 0, dl_failed |-> FALSE, run_mark |-> 0,
      resolved |-> FALSE, candidates |-> << >>, anchor |-> None,
      missing |-> << >>, parent_number |-> None ]

\* last_fetch: the height the last fetch asked for; send_failed: a sink has
\* refused a message; resumed: iterations started after that; floor: the
\* greatest height of the messages the sinks received before this height
\* began; genesis_runs: calls of fetch_genesis_state_update; since_tick: the
\* time gone since update_starknet_data was last called, saturated like
\* elapsed (no call yet counts as long ago)
NewEver ==
    [ last_fetch |-> None, send_failed |-> FALSE, resumed |-> 0, floor |-> None,
      genesis_runs |-> 0, since_tick |-> ElapsedCap ]

\* the greatest height among the messages of l, or d when that is greater
RECURSIVE TopHeight(_, _)
TopHeight(l, d) ==
    IF l = << >> THEN d
    ELSE TopHeight(Tail(l), IF Head(l).height > d THEN Head(l).height ELSE d)

-----------------------------------------------------------------------------
(* Steps of the program, factored out of the actions *)

\* l2.rs:186
NextHeightSkips(n) == n + 2
NextHeight(n) == n + 1

\* l2.rs:142: last_update_highest_block = Instant::now()
TimerNotReset(e) == e
TimerAfterTick(e) == 0

\* l2.rs:130
GenesisGateAlways(n) == TRUE
GenesisGate(n) == n = 1

\* l2.rs:187-188
FlagAfterSealKept(got) == got
FlagAfterSeal(got) == FALSE

\* l2.rs:180-181
MemoFlagForgets(got, ok) == got
MemoFlag(got, ok) == got \/ ok

\* l2.rs:149 and 162: the height handed to fetch_block
BlockTargetAhead(n) == n + 1
BlockTarget(n) == n

\* l2.rs:147-178: the future each arm of the match makes, or the Ok(()) it
\* puts in its place
BlockStart(got) == IF got THEN "skip" ELSE "get"
ChainStartAlways(got) == "get"
ChainStart(got) == IF got THEN "skip" ELSE "get"

\* l2.rs:456-462
update_l2_dropped(old, new) == old
update_l2(old, new) == new

\* l2.rs:465-487; update_state_root is outside this file: it replays
\* state_update.state_diff on the two tries and returns the root they then
\* have, a function of the diff; it does not read state_update.new_root
update_state_root(block_number, su) == 200 + su.state_diff

verify_l2(old_tip, block_number, su, substrate_block_hash) ==
    update_l2(old_tip,
              [ block_number |-> block_number,
                global_root |-> update_state_root(block_number, su),
                block_hash |-> su.block_hash ])

\* l2.rs:331-339: a failed download ends fetch_class_update with an error
FailFastOff == FALSE
FailFast == TRUE

\* l2.rs:245-258: the order of the steps after the class download
AfterDownloadSkipsState == "send_class"
AfterDownload == "send_su"
AfterStateSend == "send_class"

\* l2.rs:505-521: the ? of l2.rs:508 returns before the write of l2.rs:519
HighestBeforeGate(old, new) == new
HighestOnStateError(old, new) == old

\* l2.rs:183-184: the arm that asks for the seal
SealWhenBlockOk(block_ok, state_update_ok) == block_ok
SealWhen(block_ok, state_update_ok) == block_ok /\ state_update_ok

\* l2.rs:190-193
OnSealErrorRetries == "sleep"
OnSealError == "done"

\* l2.rs:195-202
OnFetchError == "sleep"

Finished(p) == p \in { "ok", "err", "skip" }
IsOk(p) == p \in { "ok", "skip" }

-----------------------------------------------------------------------------
Init ==
    /\ first_block \in FirstBlocks
    /\ current_block_number = first_block
    /\ last_block_hash = None
    /\ got_block = FALSE
    /\ got_state_update = FALSE
    /\ elapsed = Min(InitialLag, ElapsedCap)
    /\ pc = IF GenesisGate(first_block) THEN "genesis" ELSE "top"
    /\ bpc = "idle"
    /\ spc = "idle"
    /\ tasks = NoTasks
    /\ classes = << >>
    /\ aborted = {}
    /\ verified_tip = [ block_number |-> 0, global_root |-> 0, block_hash |-> 0 ]
    /\ highest_known = << 0, 0 >>
    /\ pending_block = NoPendingBlock
    /\ pending_state_update = NoPendingStateUpdate
    /\ best_number \in BestNumbers
    /\ log = << >>
    /\ nfail = 0
    /\ hist = NewHist
    /\ ever = NewEver
    /\ last_tick = NoTick

loop_locals == << first_block, current_block_number, last_block_hash,
                  got_block, got_state_update >>
cd_vars == << tasks, classes, aborted >>
sos_tick == << highest_known, pending_block, pending_state_update >>

\* l2.rs:130-138 and fetch_genesis_state_update, l2.rs:287-299
Genesis ==
    /\ pc = "genesis"
    /\ pc' = "top"
    /\ \E ok \in BOOLEAN :
         verified_tip' = IF ok THEN verify_l2(verified_tip, 0, GatewayStateUpdate(0), None)
                         ELSE verified_tip
    /\ ever' = [ ever EXCEPT !.genesis_runs = @ + 1 ]
    /\ UNCHANGED << loop_locals, elapsed, bpc, spc, cd_vars, sos_tick,
                    best_number, log, nfail, hist, last_tick >>

\* l2.rs:140-142: the timer is looked at once, at the top of the iteration
LoopTop ==
    /\ pc = "top"
    /\ IF elapsed > TickPeriod
       THEN /\ elapsed' = TimerAfterTick(elapsed)
            /\ pc' = "tick"
            /\ ever' = [ ever EXCEPT !.since_tick = 0 ]
       ELSE /\ elapsed' = elapsed
            /\ pc' = "select"
            /\ UNCHANGED ever
    /\ last_tick' = NoTick
    /\ UNCHANGED << loop_locals, bpc, spc, cd_vars, verified_tip, sos_tick,
                    best_number, log, nfail, hist >>

\* update_starknet_data, l2.rs:489-524, and its call, l2.rs:143-145
UpdateStarknetData ==
    /\ pc = "tick"
    /\ \E pending_ok \in BOOLEAN, parent \in PendingParents,
          number \in PendingNumbers, hash_best \in BestHashes,
          su_ok \in BOOLEAN, checked \in BOOLEAN :
         LET tmp == HashFromFelt(parent)
             num == IF number = 0 THEN WrappingSub1(number) ELSE number - 1
             tick(f) == [ ran |-> TRUE, pending_ok |-> pending_ok,
                          parent |-> parent, number |-> number,
                          best |-> hash_best, su_fetched |-> f,
                          su_ok |-> f /\ su_ok ]
         IN  IF ~pending_ok \/ number = None
             THEN \* Err before anything is written
                  /\ pc' = "select"
                  /\ last_tick' = tick(FALSE)
                  /\ UNCHANGED sos_tick
             ELSE IF number = 0 /\ checked
             THEN \* block_number - 1 overflows in a build with overflow checks
                  /\ pc' = "panicked"
                  /\ last_tick' = tick(FALSE)
                  /\ UNCHANGED sos_tick
             ELSE IF hash_best = tmp
             THEN /\ pc' = "select"
                  /\ last_tick' = tick(TRUE)
                  /\ IF su_ok
                     THEN /\ pending_block' = [ some |-> TRUE, parent |-> parent,
                                               number |-> number ]
                          /\ pending_state_update' = [ some |-> TRUE,
                                                      old_root |-> 300 + parent ]
                          /\ highest_known' = << parent, num >>
                     ELSE /\ highest_known' =
                               HighestOnStateError(highest_known, << parent, num >>)
                          /\ UNCHANGED << pending_block, pending_state_update >>
             ELSE /\ pc' = "select"
                  /\ last_tick' = tick(FALSE)
                  /\ highest_known' = << parent, num >>
                  /\ UNCHANGED << pending_block, pending_state_update >>
    /\ UNCHANGED << loop_locals, elapsed, bpc, spc, cd_vars, verified_tip,
                    best_number, log, nfail, hist, ever >>

\* l2.rs:147-178: the decision table
Select ==
    /\ pc = "select"
    /\ IF got_block /\ got_state_update
       THEN \* unreachable!()
            /\ pc' = "panicked"
            /\ UNCHANGED << bpc, spc, hist, ever >>
       ELSE /\ pc' = "run"
            /\ bpc' = BlockStart(got_block)
            /\ spc' = ChainStart(got_state_update)
            /\ hist' = [ hist EXCEPT
                           !.b_att = IF got_block THEN @ ELSE @ + 1,
                           !.s_att = IF got_state_update THEN @ ELSE @ + 1,
                           !.dl_failed = FALSE,
                           !.run_mark = Len(log) ]
            /\ ever' = [ ever EXCEPT
                           !.last_fetch = current_block_number,
                           !.resumed = IF ever.send_failed THEN @ + 1 ELSE @ ]
    /\ last_tick' = NoTick
    /\ UNCHANGED << loop_locals, elapsed, cd_vars, verified_tip, sos_tick,
                    best_number, log, nfail >>

Entry(kind, height, cls) == [ kind |-> kind, height |-> height, classes |-> cls ]

\* fetch_block, l2.rs:212-213: get_block
FetchBlockGet ==
    /\ pc = "run" /\ bpc = "get"
    /\ \E ok \in BOOLEAN :
         IF ok
         THEN /\ bpc' = "send"
              /\ UNCHANGED << nfail, hist >>
         ELSE /\ nfail < MaxFail
              /\ bpc' = "err"
              /\ nfail' = nfail + 1
              /\ hist' = [ hist EXCEPT !.b_fail = @ + 1 ]
    /\ UNCHANGED << loop_locals, elapsed, pc, spc, cd_vars, verified_tip,
                    sos_tick, best_number, log, ever, last_tick >>

\* fetch_block, l2.rs:215-218: the block goes to the block sink
FetchBlockSend ==
    /\ pc = "run" /\ bpc = "send"
    /\ \E ok \in BOOLEAN :
         IF ok
         THEN /\ bpc' = "ok"
              /\ log' = Append(log, Entry("block", BlockTarget(current_block_number), << >>))
              /\ hist' = [ hist EXCEPT !.b_ok = @ + 1 ]
              /\ UNCHANGED << nfail, ever >>
         ELSE /\ nfail < MaxFail
              /\ bpc' = "err"
              /\ nfail' = nfail + 1
              /\ hist' = [ hist EXCEPT !.b_fail = @ + 1 ]
              /\ ever' = [ ever EXCEPT !.send_failed = TRUE ]
              /\ UNCHANGED log
    /\ UNCHANGED << loop_locals, elapsed, pc, spc, cd_vars, verified_tip,
                    sos_tick, best_number, last_tick >>

\* fetch_state_update, l2.rs:276-284, then the start of fetch_class_update,
\* l2.rs:313-323: no await lies between the answer of the gateway and the
\* spawning of the downloads
FetchStateUpdate ==
    /\ pc = "run" /\ spc = "get"
    /\ \E ok \in BOOLEAN, checked \in BOOLEAN :
         LET su == GatewayStateUpdate(current_block_number)
             \* l2.rs:281; reached with block_number = 0 only when the
             \* subtraction wraps
             block_hash == block_hash_substrate(best_number,
                                                WrappingSub1(current_block_number))
             missing == MissingClasses(su, best_number, current_block_number)
         IN  IF ~ok
             THEN /\ nfail < MaxFail
                  /\ nfail' = nfail + 1
                  /\ spc' = "err"
                  /\ hist' = [ hist EXCEPT !.s_fail = @ + 1 ]
                  /\ UNCHANGED << pc, verified_tip, tasks >>
             ELSE IF current_block_number = 0 /\ checked
             THEN \* block_number - 1 overflows in a build with overflow checks
                  /\ pc' = "panicked"
                  /\ UNCHANGED << nfail, spc, verified_tip, tasks, hist >>
             ELSE /\ verified_tip' = verify_l2(verified_tip, current_block_number, su,
                                             block_hash)
                  /\ tasks' = [ c \in Classes |->
                                  IF c \in SeqToSet(missing) THEN "running" ELSE "none" ]
                  /\ spc' = "join"
                  /\ hist' = [ hist EXCEPT
                                 !.verified = @ + 1,
                                 !.resolved = TRUE,
                                 !.candidates = aggregate_classes(su),
                                 !.anchor = block_hash_substrate(best_number,
                                                ClassAnchorNumber(current_block_number)),
                                 !.missing = missing,
                                 !.parent_number =
                                     WrappingSub1(current_block_number) ]
                  /\ UNCHANGED << pc, nfail >>
    /\ classes' = << >>
    /\ UNCHANGED << loop_locals, elapsed, bpc, aborted, sos_tick, best_number,
                    log, ever, last_tick >>

\* download_class, l2.rs:365-380, run as a task of the JoinSet; "err" stands
\* for a download that failed and for a task that could not be joined, which
\* the two arms of l2.rs:331-339 treat alike
DownloadClass(c) ==
    /\ tasks[c] = "running"
    /\ \E res \in { "ok", "err" } :
         /\ res # "ok" => nfail < MaxFail
         /\ nfail' = IF res = "ok" THEN nfail ELSE nfail + 1
         /\ tasks' = [ tasks EXCEPT ![c] = res ]
         /\ hist' = [ hist EXCEPT !.dl_failed = @ \/ res # "ok" ]
    /\ UNCHANGED << loop_locals, elapsed, pc, bpc, spc, classes, aborted,
                    verified_tip, sos_tick, best_number, log, ever, last_tick >>

\* fetch_class_update, l2.rs:326-343: one turn of the join_next loop
JoinNext ==
    /\ pc = "run" /\ spc = "join"
    /\ IF \A c \in Classes : tasks[c] \in { "none", "joined" }
       THEN \* join_next gives None: Ok(classes)
            /\ spc' = AfterDownload
            /\ UNCHANGED << cd_vars, hist >>
       ELSE \E c \in Classes :
              /\ tasks[c] \in { "ok", "err" }
              /\ IF tasks[c] = "ok"
                 THEN /\ classes' = Append(classes, c)
                      /\ tasks' = [ tasks EXCEPT ![c] = "joined" ]
                      /\ UNCHANGED << spc, aborted, hist >>
                 ELSE IF FailFast
                 THEN \* abort_all, then return Err: the JoinSet is dropped
                      /\ aborted' = aborted \cup { d \in Classes : tasks[d] = "running" }
                      /\ tasks' = NoTasks
                      /\ classes' = << >>
                      /\ spc' = "err"
                      /\ hist' = [ hist EXCEPT !.s_fail = @ + 1 ]
                 ELSE /\ tasks' = [ tasks EXCEPT ![c] = "joined" ]
                      /\ UNCHANGED << spc, classes, aborted, hist >>
    /\ UNCHANGED << loop_locals, elapsed, pc, bpc, verified_tip, sos_tick,
                    best_number, log, nfail, ever, last_tick >>

\* an aborted download task reaches its end
TaskTerminates(c) ==
    /\ c \in aborted
    /\ aborted' = aborted \ { c }
    /\ UNCHANGED << loop_locals, elapsed, pc, bpc, spc, tasks, classes,
                    verified_tip, sos_tick, best_number, log, nfail, hist,
                    ever, last_tick >>

\* fetch_state_and_class_update, l2.rs:249-252
SendStateUpdate ==
    /\ pc = "run" /\ spc = "send_su"
    /\ \E ok \in BOOLEAN :
         IF ok
         THEN /\ spc' = AfterStateSend
              /\ log' = Append(log, Entry("state_update", current_block_number, << >>))
              /\ UNCHANGED << nfail, cd_vars, hist, ever >>
         ELSE /\ nfail < MaxFail
              /\ nfail' = nfail + 1
              /\ spc' = "err"
              /\ tasks' = NoTasks
              /\ classes' = << >>
              /\ hist' = [ hist EXCEPT !.s_fail = @ + 1 ]
              /\ ever' = [ ever EXCEPT !.send_failed = TRUE ]
              /\ UNCHANGED << log, aborted >>
    /\ UNCHANGED << loop_locals, elapsed, pc, bpc, verified_tip, sos_tick,
                    best_number, last_tick >>

\* fetch_state_and_class_update, l2.rs:255-260
SendClassUpdate ==
    /\ pc = "run" /\ spc = "send_class"
    /\ \E ok \in BOOLEAN :
         IF ok
         THEN /\ spc' = "ok"
              /\ log' = Append(log, Entry("class_update", current_block_number, classes))
              /\ hist' = [ hist EXCEPT !.s_ok = @ + 1 ]
              /\ UNCHANGED << nfail, ever >>
         ELSE /\ nfail < MaxFail
              /\ nfail' = nfail + 1
              /\ spc' = "err"
              /\ hist' = [ hist EXCEPT !.s_fail = @ + 1 ]
              /\ ever' = [ ever EXCEPT !.send_failed = TRUE ]
              /\ UNCHANGED log
    /\ tasks' = NoTasks
    /\ classes' = << >>
    /\ UNCHANGED << loop_locals, elapsed, pc, bpc, aborted, verified_tip,
                    sos_tick, best_number, last_tick >>

\* l2.rs:160 and 180-203: both futures are done; the flags and the match.
\* The time the awaits of this iteration took is added here: the timer is
\* read only at the top of the loop.
Join ==
    /\ pc = "run" /\ Finished(bpc) /\ Finished(spc)
    /\ \E waited \in 0..ElapsedCap :
         /\ elapsed' = Min(elapsed + waited, ElapsedCap)
         /\ ever' = [ ever EXCEPT !.since_tick = Min(@ + waited, ElapsedCap) ]
    /\ got_block' = MemoFlag(got_block, IsOk(bpc))
    /\ got_state_update' = MemoFlag(got_state_update, IsOk(spc))
    /\ pc' = IF SealWhen(IsOk(bpc), IsOk(spc)) THEN "seal" ELSE OnFetchError
    /\ bpc' = "idle"
    /\ spc' = "idle"
    /\ UNCHANGED << first_block, current_block_number, last_block_hash,
                    cd_vars, verified_tip, sos_tick, best_number, log, nfail,
                    hist, last_tick >>

\* create_block, l2.rs:435-453, and the arms of l2.rs:184-194
CreateBlock ==
    /\ pc = "seal"
    /\ \E res \in { "ok", "send_failed", "cancelled", "seal_error" } :
         CASE res = "ok" ->
                /\ current_block_number < first_block + MaxAdvance
                /\ last_block_hash' = best_number + 1
                /\ best_number' = best_number + 1
                /\ current_block_number' = NextHeight(current_block_number)
                /\ got_block' = FlagAfterSeal(got_block)
                /\ got_state_update' = FlagAfterSeal(got_state_update)
                /\ hist' = NewHist
                /\ log' = << >>
                /\ ever' = [ ever EXCEPT !.floor = TopHeight(log, @) ]
                /\ pc' = "top"
           [] res = "send_failed" ->
                \* try_send(..).unwrap()
                /\ pc' = "panicked"
                /\ UNCHANGED << current_block_number, last_block_hash, got_block,
                                got_state_update, best_number, hist, log, ever >>
           [] OTHER ->
                /\ pc' = OnSealError
                /\ UNCHANGED << current_block_number, last_block_hash, got_block,
                                got_state_update, best_number, hist, log, ever >>
    /\ UNCHANGED << first_block, elapsed, bpc, spc, cd_vars, verified_tip,
                    sos_tick, nfail, last_tick >>

\* l2.rs:197 and 201
Sleep ==
    /\ pc = "sleep"
    /\ elapsed' = Min(elapsed + BackoffSecs, ElapsedCap)
    /\ ever' = [ ever EXCEPT !.since_tick = Min(@ + BackoffSecs, ElapsedCap) ]
    /\ pc' = "top"
    /\ UNCHANGED << loop_locals, bpc, spc, cd_vars, verified_tip, sos_tick,
                    best_number, log, nfail, hist, last_tick >>

Next ==
    \/ Genesis
    \/ LoopTop
    \/ UpdateStarknetData
    \/ Select
    \/ FetchBlockGet
    \/ FetchBlockSend
    \/ FetchStateUpdate
    \/ \E c \in Classes : DownloadClass(c)
    \/ JoinNext
    \/ \E c \in Classes : TaskTerminates(c)
    \/ SendStateUpdate
    \/ SendClassUpdate
    \/ Join
    \/ CreateBlock
    \/ Sleep

Spec == Init /\ [][Next]_vars

\* The runtime polls a task that can go on, the gateway and the sinks answer
\* every request (with a result or an error) and a sleep ends: no step of the
\* loop, of its two futures or of a download task stays possible for ever
\* without being taken.
FairSpec ==
    /\ Spec
    /\ WF_vars(Genesis)
    /\ WF_vars(LoopTop)
    /\ WF_vars(UpdateStarknetData)
    /\ WF_vars(Select)
    /\ WF_vars(FetchBlockGet)
    /\ WF_vars(FetchBlockSend)
    /\ WF_vars(FetchStateUpdate)
    /\ \A c \in Classes : WF_vars(DownloadClass(c))
    /\ WF_vars(JoinNext)
    /\ \A c \in Classes : WF_vars(TaskTerminates(c))
    /\ WF_vars(SendStateUpdate)
    /\ WF_vars(SendClassUpdate)
    /\ WF_vars(Join)
    /\ WF_vars(CreateBlock)
    /\ WF_vars(Sleep)

-----------------------------------------------------------------------------
(* Properties *)

LastEntry(l) == l[Len(l)]
Dispatched(kind) == Len(log') = Len(log) + 1 /\ LastEntry(log').kind = kind

\* C1: the height changes only in the step in which the seal succeeds, then by
\* exactly one and with both flags reset; the heights asked of the gateway are
\* first_block, first_block + 1, ... with none skipped and none repeated
\* after a later one.
C1_HeightAdvancesOnlyOnSeal ==
    [][ /\ current_block_number' # current_block_number =>
             /\ pc = "seal" /\ pc' = "top"
             /\ current_block_number' = current_block_number + 1
             /\ ~got_block' /\ ~got_state_update'
        /\ ever'.last_fetch # ever.last_fetch =>
             IF ever.last_fetch = None
             THEN ever'.last_fetch = first_block
             ELSE ever'.last_fetch = ever.last_fetch + 1 ]_vars

C1_Witness ==
    /\ ever.last_fetch = first_block + 1
    /\ current_block_number = first_block + 1
    /\ nfail > 0

\* C2: at a height, an operation that has succeeded is not attempted again:
\* each of the two succeeds at most once, nothing of it runs after its success,
\* and when the seal is requested every attempt but one was a failure of that
\* same operation (one block failure with no state failure: two block
\* attempts, one state attempt).
C2_PartialSuccessMemo ==
    /\ hist.b_ok <= 1
    /\ hist.s_ok <= 1
    /\ hist.b_ok = 1 => bpc \in { "idle", "ok", "skip" }
    /\ hist.s_ok = 1 => spc \in { "idle", "ok", "skip" }
    /\ pc = "seal" => /\ hist.b_att = hist.b_fail + 1
                      /\ hist.s_att = hist.s_fail + 1

C2_Witness ==
    /\ pc = "seal"
    /\ hist.b_fail = 1 /\ hist.b_att = 2
    /\ hist.s_fail = 0 /\ hist.s_att = 1

\* C3: every class batch the sinks received follows the state update of its
\* height, with nothing of the state-update chain dispatched in between (so
\* the two come from the same run of the chain).
C3_StateUpdateBeforeClasses ==
    \A i \in 1..Len(log) :
        log[i].kind = "class_update" =>
            \E j \in 1..(i - 1) :
                /\ log[j].kind = "state_update"
                /\ log[j].height = log[i].height
                /\ \A k \in (j + 1)..(i - 1) : log[k].kind = "block"

C3_Witness ==
    \E i \in 3..Len(log) :
        /\ log[i].kind = "class_update"
        /\ log[i - 1].kind = "block"
        /\ log[i - 2].kind = "state_update"

\* C4: no message reaches a sink after a message of a greater height: those
\* of the current height are in order among themselves and none is below the
\* heights dispatched before this height began.
C4_HeightsInOrder ==
    /\ \A i \in 1..Len(log) : \A j \in i..Len(log) : log[i].height <= log[j].height
    /\ \A i \in 1..Len(log) : ever.floor <= log[i].height

C4_Witness ==
    /\ nfail > 0
    /\ ever.floor = first_block
    /\ Len(log) = 3
    /\ \A i \in 1..Len(log) : log[i].height = ever.floor + 1

\* C5: when the state update of height N goes to its sink, verify_l2 has run
\* at N and verified_tip holds height N.
C5_TipBeforeStateDispatch ==
    [][ Dispatched("state_update") =>
            /\ hist.verified >= 1
            /\ verified_tip.block_number = LastEntry(log').height ]_vars

C5_Witness ==
    \E i \in 1..Len(log) :
        /\ log[i].kind = "state_update"
        /\ log[i].height = 2
        /\ verified_tip.block_number = 2

\* C6: once a class download of a run of the chain has failed, that run
\* dispatches nothing (only the block future may add to the log), the chain
\* ends in error, got_state_update stays false and the loop does not go on to
\* the seal: the chain is selected again at the same height.
C6_FailFastDownload ==
    hist.dl_failed =>
        /\ spc \in { "join", "err", "idle" }
        /\ \A i \in (hist.run_mark + 1)..Len(log) : log[i].kind = "block"
        /\ ~got_state_update
        /\ pc \in { "run", "sleep", "top", "tick", "select" }

C6_Witness ==
    /\ hist.dl_failed
    /\ pc = "select"
    /\ got_block /\ ~got_state_update
    /\ hist.s_fail = 1

\* the classes the state update of height h refers to
ReferencedClasses(h) ==
    SeqToSet(GatewayStateUpdate(h).deployed_contracts)
        \cup SeqToSet(GatewayStateUpdate(h).declared_classes)

\* those of them the class store lacks at the parent of h, when the local chain
\* of best number `best` has that parent
MissingAtParent(h, best) ==
    IF h >= 1 /\ block_hash_substrate(best, h - 1) # None
    THEN { c \in ReferencedClasses(h) : c \notin ClassStore(h - 1) }
    ELSE ReferencedClasses(h)

\* C7: the class batch dispatched at height N holds exactly the classes the
\* state update of N refers to that the class store lacks at N's parent (all
\* of them when the parent's hash is not known), each once.
C7_BatchIsMissingAtParent ==
    [][ Dispatched("class_update") =>
            /\ SeqToSet(LastEntry(log').classes)
                   = MissingAtParent(LastEntry(log').height, best_number)
            /\ Len(LastEntry(log').classes)
                   = Cardinality(SeqToSet(LastEntry(log').classes)) ]_vars

\* C8: a seal request either succeeds or ends the loop with the height as it
\* was, and once the loop has ended nothing is fetched, downloaded or
\* dispatched any more.
C8_SealFailureIsFatal ==
    [][ /\ (pc = "seal" /\ pc' # "seal") =>
             \/ pc' = "top" /\ current_block_number' = current_block_number + 1
             \/ /\ pc' \in { "done", "panicked" }
                /\ current_block_number' = current_block_number
        /\ pc \in { "done", "panicked" } =>
             /\ pc' = pc /\ bpc' = bpc /\ spc' = spc
             /\ tasks' = tasks /\ log' = log
             /\ hist' = hist /\ ever' = ever
             /\ current_block_number' = current_block_number ]_vars

C8_Witness ==
    /\ pc = "done"
    /\ current_block_number = first_block + 1
    /\ \E i \in 1..Len(log) : log[i].height = current_block_number

\* C9: after a send to one of the three sinks has failed, the loop starts no
\* further iteration.
C9_SendErrorIsFatal == ever.send_failed => ever.resumed = 0

\* C10: a tick that got the pending block (with its number) while the local
\* best hash differs from pending.parent_block_hash writes highest_known
\* = (parent hash, number - 1) and nothing else, and fetches no pending state
\* update.
C10_CatchUpGate ==
    [][ ( /\ last_tick'.ran /\ last_tick'.pending_ok
          /\ last_tick'.number # None
          /\ last_tick'.best # last_tick'.parent ) =>
            /\ highest_known' = << last_tick'.parent, last_tick'.number - 1 >>
            /\ pending_block' = pending_block
            /\ pending_state_update' = pending_state_update
            /\ verified_tip' = verified_tip
            /\ ~last_tick'.su_fetched ]_vars

\* C11: a tick in which a gateway fetch fails (the pending block, or the
\* pending state update once the gate has opened) changes none of
\* highest_known, pending_block, pending_state_update, and the loop goes on
\* to select its fetches.
C11_FailedTickLeavesSlots ==
    [][ ( /\ last_tick'.ran /\ ~last_tick.ran
          /\ \/ ~last_tick'.pending_ok
             \/ last_tick'.su_fetched /\ ~last_tick'.su_ok ) =>
            /\ highest_known' = highest_known
            /\ pending_block' = pending_block
            /\ pending_state_update' = pending_state_update
            /\ pc = "tick" /\ pc' = "select" ]_vars

C11_Witness ==
    /\ last_tick.ran /\ last_tick.pending_ok
    /\ last_tick.su_fetched /\ ~last_tick.su_ok
    /\ highest_known # << 0, 0 >>
    /\ pc = "select"

\* C12: once verified_tip has been published for a height, its global_root is
\* the new_root of the state update of that height.
C12_RootIsAnnounced ==
    verified_tip.block_hash # 0 =>
        verified_tip.global_root
            = GatewayStateUpdate(verified_tip.block_number).new_root

\* the place of the first occurrence of x in s
FirstIndex(s, x) ==
    CHOOSE i \in 1..Len(s) : s[i] = x /\ \A j \in 1..(i - 1) : s[j] # x

NoRepeat(r) == \A i, j \in 1..Len(r) : r[i] = r[j] => i = j

\* r holds the elements of s in `keep`, each once, in the order of their
\* first occurrence in s
IsFirstSeenSelection(r, s, keep) ==
    /\ SeqToSet(r) = SeqToSet(s) \cap keep
    /\ NoRepeat(r)
    /\ \A i, j \in 1..Len(r) : i < j => FirstIndex(s, r[i]) < FirstIndex(s, r[j])

\* C13: the candidates are the class hashes of the deployed contracts followed
\* by those of the declared classes, each once in first-seen order; with an
\* anchor the result is the candidates absent from the class store at the
\* anchor, in the same order, and without an anchor it is all the candidates.
C13_CandidatesAndMissing ==
    hist.resolved =>
        LET su == GatewayStateUpdate(current_block_number)
        IN  /\ IsFirstSeenSelection(hist.candidates,
                                    su.deployed_contracts \o su.declared_classes,
                                    Classes)
            /\ IF hist.anchor = None
               THEN hist.missing = hist.candidates
               ELSE IsFirstSeenSelection(hist.missing, hist.candidates,
                                         Classes \ ClassStore(hist.anchor))

C13_Witness ==
    /\ hist.resolved
    /\ hist.anchor # None
    /\ Len(hist.candidates) = 2
    /\ Len(GatewayStateUpdate(current_block_number).deployed_contracts)
         + Len(GatewayStateUpdate(current_block_number).declared_classes) = 3
    /\ Len(hist.missing) = 1

\* C14: with neither flag set the iteration starts the block fetch and the
\* state-update chain together, with only got_state_update set it starts the
\* block fetch alone, with only got_block set the chain alone (what is not
\* started does nothing); when the iteration's futures are done each flag
\* becomes its old value or the success of its operation in this iteration.
C14_DecisionTable ==
    [][ /\ (pc = "select" /\ pc' = "run") =>
             /\ (~got_block /\ ~got_state_update) => (bpc' = "get" /\ spc' = "get")
             /\ (~got_block /\ got_state_update) => (bpc' = "get" /\ spc' = "skip")
             /\ (got_block /\ ~got_state_update) => (bpc' = "skip" /\ spc' = "get")
        /\ spc = "skip" =>
             /\ verified_tip' = verified_tip /\ tasks' = tasks
             /\ ~Dispatched("state_update") /\ ~Dispatched("class_update")
        /\ bpc = "skip" => ~Dispatched("block")
        /\ (pc = "run" /\ pc' \notin { "run", "panicked" }) =>
             /\ got_block' = (got_block \/ bpc = "ok")
             /\ got_state_update' = (got_state_update \/ spc = "ok") ]_vars

C14_Witness ==
    /\ pc = "run"
    /\ ~got_block /\ got_state_update
    /\ bpc = "send" /\ spc = "skip"

\* C15: the two flags are both true only between the end of the iteration
\* that completed the height and the answer to the seal request, or after the
\* loop has ended: never at the top of an iteration, at the tick, at the
\* decision table, during the fetches or during the backoff.
C15_NeverBothAtTop ==
    (got_block /\ got_state_update) => pc \in { "seal", "done", "panicked" }

C15_Witness ==
    /\ pc = "top"
    /\ current_block_number = first_block + 1
    /\ ~got_block /\ ~got_state_update
    /\ ever.last_fetch = first_block
    /\ nfail = 1

HasEntry(kind, height) ==
    \E i \in 1..Len(log) : log[i].kind = kind /\ log[i].height = height

\* C16: when the seal of height N is requested the block, the state update
\* and the class batch of height N have each been dispatched to their sink,
\* and neither future of the iteration nor any download of it is still under
\* way.
C16_SealAfterDispatch ==
    pc = "seal" =>
        /\ HasEntry("block", current_block_number)
        /\ HasEntry("state_update", current_block_number)
        /\ HasEntry("class_update", current_block_number)
        /\ bpc = "idle" /\ spc = "idle"
        /\ tasks = NoTasks

C16_Witness ==
    /\ pc = "seal"
    /\ hist.b_att = 1 /\ hist.s_att = 1
    /\ Len(log) = 3
    /\ log[1].kind = "state_update"
    /\ log[2].kind = "class_update"
    /\ log[3].kind = "block"

\* C17: fetch_genesis_state_update runs only when first_block = 1, once,
\* before anything is fetched for height 1; it either leaves verified_tip as
\* it was (the step failed) or publishes height 0, sends nothing to the
\* sinks, and in both cases the loop starts at height 1; with another
\* first_block the loop fetches without it.
C17_GenesisOnce ==
    [][ /\ pc = "genesis" =>
             /\ pc' = "top"
             /\ current_block_number' = 1
             /\ log = << >> /\ log' = << >>
             /\ ever.last_fetch = None /\ ever'.last_fetch = None
             /\ \/ verified_tip' = verified_tip
                \/ verified_tip' = [ block_number |-> 0, global_root |-> 200,
                                     block_hash |-> 100 ]
        /\ ever'.genesis_runs # ever.genesis_runs =>
             /\ pc = "genesis" /\ first_block = 1
             /\ ever.genesis_runs = 0 /\ ever'.genesis_runs = 1
        /\ ever'.last_fetch # None =>
             ever'.genesis_runs = (IF first_block = 1 THEN 1 ELSE 0) ]_vars

C17_Witness ==
    /\ first_block = 1
    /\ ever.genesis_runs = 1
    /\ ever.last_fetch = 1
    /\ verified_tip.block_hash = 0
    /\ pc = "run" /\ bpc = "send"

\* C18: when fetch_class_update returns an error, every download task of
\* its batch has terminated: none that was aborted is still running.
C18_ErrorAfterSiblingsEnd ==
    [][ (spc = "join" /\ spc' = "err") => aborted' = {} ]_vars

\* C19: update_starknet_data is entered only from the top of an iteration
\* and only when more than TickPeriod has gone since it was last entered (or
\* it never was); it is followed by the decision table of the same iteration,
\* and the top of the loop is reached again only through the seal, the
\* backoff or the genesis step, so an iteration has at most one tick however
\* long the one before it lasted.
C19_TickAtMostOncePerPeriod ==
    [][ /\ (pc' = "tick" /\ pc # "tick") =>
             /\ pc = "top"
             /\ ever.since_tick > TickPeriod
             /\ ever'.since_tick = 0
        /\ (pc = "tick" /\ pc' # "tick") => pc' \in { "select", "panicked" }
        /\ (pc = "top" /\ pc' # "top") => pc' \in { "tick", "select" }
        /\ (pc' = "top" /\ pc # "top") => pc \in { "genesis", "seal", "sleep" } ]_vars

C19_Witness ==
    /\ pc = "tick"
    /\ nfail = 1
    /\ ever.resumed = 1
    /\ highest_known # << 0, 0 >>
    /\ ever.since_tick = 0

\* C20: verify_l2 runs at most once at a height before the loop leaves that
\* height, whatever is retried.
C20_VerifyOncePerHeight == hist.verified <= 1

\* C21: the state-update sink receives the state update of a height at most
\* once before the loop leaves that height, whatever is retried.
C21_StateUpdateSentOnce ==
    Cardinality({ i \in 1..Len(log) : log[i].kind = "state_update" }) <= 1

\* C22: when fetch_state_update has the state update of height N, the parent
\* height it works out is N - 1, and at N = 0 it is absent: the subtraction
\* neither wraps round nor ends the task.
C22_ParentNeverUnderflows ==
    [][ (pc = "run" /\ spc = "get" /\ (spc' = "join" \/ pc' = "panicked")) =>
            /\ pc' # "panicked"
            /\ hist'.parent_number = IF current_block_number = 0 THEN None
                                     ELSE current_block_number - 1 ]_vars

\* the loop has ended on a seal request that failed: both flags are still set
SealFailed == pc \in { "done", "panicked" } /\ got_block /\ got_state_update

\* C23: the failures of the gateway, the downloads and the sinks being
\* finitely many (MaxFail), every fair run in which no seal request fails
\* advances past each height: the height reaches first_block + MaxAdvance.
C23_EventuallyAdvances ==
    <>(SealFailed \/ current_block_number = first_block + MaxAdvance)

====
